---- MODULE Spec2Model ----
(***************************************************************************)
(* Blue/green backend of the skew-protection demo.                         *)
(*                                                                         *)
(* The repository declares an Application Load Balancer listener with ONE  *)
(* rule (priority 1, path "/*") that forwards by weight to a blue and a    *)
(* green target group, and a CodeDeploy blue/green deployment group that   *)
(* replaces the running task set: a replacement task set is started in the *)
(* target group that carries no traffic, its health is checked on /health, *)
(* production traffic is shifted to it all at once, and the original task  *)
(* set is terminated after terminationWaitTime.  The README records that   *)
(* the header-based (X-Deployment-ID) listener rules were planned but never*)
(* created.  The backend is the Node.js HTTP handler of apps/api.          *)
(*                                                                         *)
(* Vocabulary used by the properties:                                      *)
(*   register  = the deployment starts its replacement task set            *)
(*   promote   = the production traffic shift                              *)
(*   retire    = the termination of the original task set                  *)
(*   signal    = the value of the X-Deployment-ID request header           *)
(***************************************************************************)
EXTENDS Integers, FiniteSets, Sequences, TLC

\* ---------------------------------------------------------------- bounds
MaxDeployments == 4
MaxInFlight == 3       \* requests of the page not yet settled

\* ------------------------------------------------------ program constants
ProdRulePriority == 1
BlueWeight == 100
GreenWeight == 0
ListenerDefaultStatus == 404
TerminationWaitMinutes == 5

TargetGroups == {"blue", "green"}
Other(tg) == IF tg = "blue" THEN "green" ELSE "blue"

NoDeployment == 0
Deployments == 1 .. MaxDeployments
NoSignal == 0
UnknownId == MaxDeployments + 1
Signals == {NoSignal} \cup Deployments \cup {UnknownId}

Paths == {"/health", "/api/data", "/other"}
Methods == {"GET", "OPTIONS", "POST"}

VARIABLES
    prodListenerRule,   \* the listener rule: priority, path pattern, weights
    taskSet,            \* target group -> deployment whose tasks it holds
    service,            \* state of the CodeDeploy deployment in flight
    nextId,             \* identifier of the next deployment
    terminated,         \* deployments whose task set has been terminated
    abandoned,          \* deployments whose rollout failed
    last,               \* the last request and what became of it; n tells
                        \* one request from the next
    app                 \* the demo page: the App component and its requests

vars == <<prodListenerRule, taskSet, service, nextId, terminated, abandoned,
          last, app>>

\* ------------------------------------------------------------ the listener
\* elbv2.ListenerCondition.pathPatterns(["/*"]): "*" matches any characters
PathMatches(pattern, path) == pattern = "/*" \/ pattern = path

\* ListenerAction.weightedForward: a target group is chosen in proportion
\* to its weight, so a group of weight 0 is never chosen
WeightedForward(weights) == {tg \in TargetGroups : weights[tg] > 0}

\* (variant: the weights are not consulted)
ListenerTargets_unweighted(rule, sig, path) ==
    IF PathMatches(rule.pattern, path) THEN TargetGroups ELSE {}

\* What the listener does with a request.  Rules are evaluated in priority
\* order; the only rule has a path condition and no header condition, so the
\* signal takes no part in the decision.  Unmatched requests get the
\* listener's default action, a fixed 404.
ListenerTargets(rule, sig, path) ==
    IF PathMatches(rule.pattern, path)
    THEN WeightedForward(rule.weights)
    ELSE {}

\* ------------------------------------------------------------- the backend
CommonHeaders == {"Content-Type", "Access-Control-Allow-Origin",
                  "Access-Control-Allow-Methods", "Access-Control-Allow-Headers"}

\* createServer handler of the API
Handler(path, method) ==
    IF method = "OPTIONS" THEN [code |-> 200, headers |-> CommonHeaders]
    ELSE IF path = "/health" /\ method = "GET"
         THEN [code |-> 200, headers |-> CommonHeaders]
    ELSE IF path = "/api/data" /\ method = "GET"
         THEN [code |-> 200, headers |-> CommonHeaders]
    ELSE [code |-> 404, headers |-> CommonHeaders]

\* --------------------------------------------------- deployment vocabulary
ProductionGroups == WeightedForward(prodListenerRule.weights)

Status(d) ==
    IF d \in terminated THEN "retired"
    ELSE IF d \in abandoned THEN "abandoned"
    ELSE IF \E tg \in TargetGroups : taskSet[tg] = d /\ tg \in ProductionGroups
         THEN "active"
    ELSE IF \E tg \in TargetGroups : taskSet[tg] = d
         THEN (IF service.phase = "waiting" THEN "draining" ELSE "provisioning")
    ELSE "absent"

ActiveDeployments == {d \in Deployments : Status(d) = "active"}

\* ------------------------------------------------------------ the demo page
\* What calls fetchApiData: the effect, the interval, the manual button.
Triggers == {"effect", "interval", "manual"}

\* The App component before it is mounted.  useState initial values:
\* apiData null, isLoading false, error null, autoRefetch true.  inFlight
\* counts the requests of fetchApiData not yet settled, stale those started
\* by an instance since unmounted, intervals the live setInterval timers.
NotMounted ==
    [mounted |-> FALSE, apiData |-> FALSE, isLoading |-> FALSE,
     error |-> FALSE, autoRefetch |-> TRUE,
     inFlight |-> [t \in Triggers |-> 0], stale |-> 0, intervals |-> 0]

\* ------------------------------------------------------------------- Init
\* After `cdk deploy`: the rule forwards 100/0 and the ECS service is
\* attached to the blue target group.
Init ==
    /\ prodListenerRule = [priority |-> ProdRulePriority, pattern |-> "/*",
                           weights |-> [tg \in TargetGroups |->
                               IF tg = "blue" THEN BlueWeight ELSE GreenWeight]]
    /\ taskSet = [tg \in TargetGroups |-> IF tg = "blue" THEN 1 ELSE NoDeployment]
    /\ service = [phase |-> "idle", replacement |-> NoDeployment,
                  original |-> NoDeployment, waited |-> 0]
    /\ nextId = 2
    /\ terminated = {}
    /\ abandoned = {}
    /\ last = [sig |-> NoSignal, path |-> "/health", method |-> "GET",
               dep |-> NoDeployment, code |-> 0, headers |-> {},
               sigStatus |-> "absent", active |-> NoDeployment, n |-> 0]
    /\ app = NotMounted

\* ------------------------------------------------ the blue/green deployment
\* The target group a replacement task set is started in: the one that
\* carries no production traffic.
ReplacementGroup == CHOOSE tg \in TargetGroups : tg \notin ProductionGroups

GroupOf(d) == CHOOSE tg \in TargetGroups : taskSet[tg] = d

\* (variant: the replacement is given the traffic before the original
\* loses it)
ShiftedWeights_additive(weights) ==
    [tg \in TargetGroups |-> IF weights[tg] = 0 THEN 100 ELSE weights[tg]]

\* The production traffic shift.  No deployment configuration is given, so
\* the shift is all at once: the two weights of the rule change places.
ShiftedWeights(weights) == [tg \in TargetGroups |-> weights[Other(tg)]]

\* The Deploy stage of the pipeline starts a deployment: the replacement
\* task set is created in the idle target group and receives no traffic.
StartDeployment ==
    /\ service.phase = "idle"
    /\ nextId <= MaxDeployments
    /\ taskSet' = [taskSet EXCEPT ![ReplacementGroup] = nextId]
    /\ service' = [phase |-> "provisioning", replacement |-> nextId,
                   original |-> taskSet[Other(ReplacementGroup)], waited |-> 0]
    /\ nextId' = nextId + 1
    /\ UNCHANGED <<prodListenerRule, terminated, abandoned, last, app>>

\* The target group health check: GET /health on the replacement tasks.
HealthCheckPass ==
    /\ service.phase = "provisioning"
    /\ Handler("/health", "GET").code = 200
    /\ service' = [service EXCEPT !.phase = "healthy"]
    /\ UNCHANGED <<prodListenerRule, taskSet, nextId, terminated, abandoned, last, app>>

\* (variant: the clean-up of a failed deployment removes the original)
FailedGroup_original == GroupOf(service.original)

\* The group cleaned up when a deployment fails: the replacement's.
FailedGroup == GroupOf(service.replacement)

\* The replacement tasks never become healthy: the deployment fails, the
\* replacement task set is removed and production is left as it was.
RolloutFailed ==
    /\ service.phase = "provisioning"
    /\ taskSet' = [taskSet EXCEPT ![FailedGroup] = NoDeployment]
    /\ abandoned' = abandoned \cup {service.replacement}
    /\ service' = [phase |-> "idle", replacement |-> NoDeployment,
                   original |-> NoDeployment, waited |-> 0]
    /\ UNCHANGED <<prodListenerRule, nextId, terminated, last, app>>

\* (variant: traffic is shifted without waiting for the health check)
ReadyToShift_unchecked == service.phase \in {"provisioning", "healthy"}

\* Traffic is shifted once the replacement tasks have passed the health
\* check.
ReadyToShift == service.phase = "healthy"

ShiftTraffic ==
    /\ ReadyToShift
    /\ prodListenerRule' = [prodListenerRule EXCEPT
                               !.weights = ShiftedWeights(@)]
    /\ service' = [service EXCEPT !.phase = "waiting", !.waited = 0]
    /\ UNCHANGED <<taskSet, nextId, terminated, abandoned, last, app>>

\* One minute of the termination wait goes by.
Tick ==
    /\ service.phase = "waiting"
    /\ service.waited < TerminationWaitMinutes
    /\ service' = [service EXCEPT !.waited = @ + 1]
    /\ UNCHANGED <<prodListenerRule, taskSet, nextId, terminated, abandoned, last, app>>

\* (variant: the task set now in production is the one terminated)
TerminationGroup_production == GroupOf(service.replacement)

\* The group whose task set is terminated at the end of the wait: the one
\* holding the original task set.
TerminationGroup == GroupOf(service.original)

\* (variant: the termination waits for clients to stop presenting the
\* identifier of the original)
WaitElapsed_untilUnused ==
    /\ service.waited = TerminationWaitMinutes
    /\ last.sig # service.original

\* (variant: the original is terminated as soon as traffic has shifted)
WaitElapsed_immediately == service.waited >= 0

\* terminationWaitTime has gone by since the traffic shift.
WaitElapsed == service.waited = TerminationWaitMinutes

TerminateOriginal ==
    /\ service.phase = "waiting"
    /\ WaitElapsed
    /\ taskSet' = [taskSet EXCEPT ![TerminationGroup] = NoDeployment]
    /\ terminated' = terminated \cup {taskSet[TerminationGroup]}
    /\ service' = [phase |-> "idle", replacement |-> NoDeployment,
                   original |-> NoDeployment, waited |-> 0]
    /\ UNCHANGED <<prodListenerRule, nextId, abandoned, last, app>>

\* ---------------------------------------------------------------- requests
SignalStatus(sig) ==
    IF sig = NoSignal THEN "none"
    ELSE IF sig \in Deployments THEN Status(sig)
    ELSE "absent"

TheActive == IF ActiveDeployments = {} THEN NoDeployment
             ELSE CHOOSE d \in ActiveDeployments : TRUE

\* (variant: the tasks named by the signal answer, whatever became of them)
Forwarded_sticky(tg, sig, path, method) ==
    [sig |-> sig, path |-> path, method |-> method,
     dep |-> IF sig \in Deployments THEN sig ELSE taskSet[tg],
     code |-> Handler(path, method).code,
     headers |-> Handler(path, method).headers,
     sigStatus |-> SignalStatus(sig), active |-> TheActive, n |-> 1 - last.n]

\* The response to a request forwarded to target group tg.  A group with no
\* registered task answers 503 at the load balancer.
Forwarded(tg, sig, path, method) ==
    IF taskSet[tg] = NoDeployment
    THEN [sig |-> sig, path |-> path, method |-> method, dep |-> NoDeployment,
          code |-> 503, headers |-> {},
          sigStatus |-> SignalStatus(sig), active |-> TheActive, n |-> 1 - last.n]
    ELSE [sig |-> sig, path |-> path, method |-> method, dep |-> taskSet[tg],
          code |-> Handler(path, method).code,
          headers |-> Handler(path, method).headers,
          sigStatus |-> SignalStatus(sig), active |-> TheActive, n |-> 1 - last.n]

Request(sig, path, method) ==
    /\ IF ListenerTargets(prodListenerRule, sig, path) = {}
       THEN last' = [sig |-> sig, path |-> path, method |-> method,
                     dep |-> NoDeployment, code |-> ListenerDefaultStatus,
                     headers |-> {}, sigStatus |-> SignalStatus(sig),
                     active |-> TheActive, n |-> 1 - last.n]
       ELSE \E tg \in ListenerTargets(prodListenerRule, sig, path) :
                last' = Forwarded(tg, sig, path, method)
    /\ UNCHANGED <<prodListenerRule, taskSet, service, nextId, terminated, abandoned, app>>

Next ==
    \/ StartDeployment
    \/ HealthCheckPass
    \/ RolloutFailed
    \/ ShiftTraffic
    \/ Tick
    \/ TerminateOriginal
    \/ \E sig \in Signals, path \in Paths, method \in Methods :
           Request(sig, path, method)

Spec == Init /\ [][Next]_vars

\* Time passes, and the deployment service terminates the original task set
\* once the wait is over.
FairSpec == Spec /\ WF_vars(Tick) /\ WF_vars(TerminateOriginal)

TypeOK ==
    /\ prodListenerRule.weights \in [TargetGroups -> 0 .. 100]
    /\ taskSet \in [TargetGroups -> {NoDeployment} \cup Deployments]
    /\ service.phase \in {"idle", "provisioning", "healthy", "waiting"}
    /\ nextId \in 2 .. MaxDeployments + 1
    /\ terminated \subseteq Deployments
    /\ abandoned \subseteq Deployments

\* ------------------------------------------------- the demo page, actions
\* Room for one more request of the page within the bound.
InFlight(a) ==
    a.inFlight["effect"] + a.inFlight["interval"] + a.inFlight["manual"]

Room == InFlight(app) + app.stale < MaxInFlight

\* fetchApiData up to its first await: setIsLoading(true), setError(null),
\* and the request is in flight; t is what called it.
fetchApiData(a, t) ==
    [a EXCEPT !.isLoading = TRUE, !.error = FALSE, !.inFlight[t] = @ + 1]

\* response.ok of the answer of the API to GET /api/data
ResponseOk == Handler("/api/data", "GET").code \in 200 .. 299

\* fetchApiData after the await: setApiData on success, setError in the
\* catch, and setIsLoading(false) in the finally, whatever else is in flight.
Settle(a, t, ok) ==
    [a EXCEPT !.apiData = IF ok THEN TRUE ELSE @,
              !.error = IF ok THEN @ ELSE TRUE,
              !.isLoading = FALSE,
              !.inFlight[t] = @ - 1]

\* The effect's cleanup forgotten: the interval stays registered.
EffectCleanup_none(a) == a

\* The cleanup the effect returned: clearInterval of the interval it
\* registered; an effect run with autoRefetch false returned none.
EffectCleanup(a) ==
    IF a.autoRefetch THEN [a EXCEPT !.intervals = @ - 1] ELSE a

\* The effect body: fetch at once, then register the 5-second interval
\* unless autoRefetch is false.
Effect(a) ==
    IF ~ a.autoRefetch
    THEN fetchApiData(a, "effect")
    ELSE [fetchApiData(a, "effect") EXCEPT !.intervals = @ + 1]

\* The component is mounted with its initial state and the effect runs.
\* Requests of an earlier mount stay in flight.
Mount ==
    /\ ~ app.mounted
    /\ Room
    /\ app' = Effect([NotMounted EXCEPT !.mounted = TRUE, !.stale = app.stale])
    /\ UNCHANGED <<prodListenerRule, taskSet, service, nextId, terminated,
                   abandoned, last>>

\* Click on the toggle button: autoRefetch changes, so the previous
\* effect's cleanup runs and the effect runs again.
ToggleAutoRefetch ==
    /\ app.mounted
    /\ Room
    /\ app' = Effect([EffectCleanup(app) EXCEPT !.autoRefetch = ~ @])
    /\ UNCHANGED <<prodListenerRule, taskSet, service, nextId, terminated,
                   abandoned, last>>

\* A registered interval fires after 5 seconds and calls fetchApiData.
IntervalFire ==
    /\ app.intervals > 0
    /\ Room
    /\ app' = fetchApiData(app, "interval")
    /\ UNCHANGED <<prodListenerRule, taskSet, service, nextId, terminated,
                   abandoned, last>>

\* Click on the manual refresh button, which is disabled while isLoading.
ManualRefresh ==
    /\ app.mounted
    /\ ~ app.isLoading
    /\ Room
    /\ app' = fetchApiData(app, "manual")
    /\ UNCHANGED <<prodListenerRule, taskSet, service, nextId, terminated,
                   abandoned, last>>

\* A request in flight settles: the API answers, or fetch rejects.
FetchComplete ==
    /\ \E t \in Triggers, outcome \in {"response", "rejected"} :
           /\ app.inFlight[t] > 0
           /\ app' = Settle(app, t, outcome = "response" /\ ResponseOk)
    /\ UNCHANGED <<prodListenerRule, taskSet, service, nextId, terminated,
                   abandoned, last>>

\* A request of an unmounted component settles: its state updates are lost.
StaleComplete ==
    /\ app.stale > 0
    /\ app' = [app EXCEPT !.stale = @ - 1]
    /\ UNCHANGED <<prodListenerRule, taskSet, service, nextId, terminated,
                   abandoned, last>>

\* The component is unmounted: the effect's cleanup runs, the state is
\* dropped, the requests in flight are not cancelled.
Unmount ==
    /\ app.mounted
    /\ app' = [NotMounted EXCEPT !.stale = app.stale + InFlight(app),
                                 !.intervals = EffectCleanup(app).intervals]
    /\ UNCHANGED <<prodListenerRule, taskSet, service, nextId, terminated,
                   abandoned, last>>

AppNext ==
    \/ Mount
    \/ ToggleAutoRefetch
    \/ IntervalFire
    \/ ManualRefresh
    \/ FetchComplete
    \/ StaleComplete
    \/ Unmount

AppSpec == Init /\ [][AppNext]_vars

AppTypeOK ==
    /\ app.mounted \in BOOLEAN
    /\ app.apiData \in BOOLEAN
    /\ app.isLoading \in BOOLEAN
    /\ app.error \in BOOLEAN
    /\ app.autoRefetch \in BOOLEAN
    /\ app.inFlight \in [Triggers -> 0 .. MaxInFlight]
    /\ app.stale \in 0 .. MaxInFlight
    /\ app.intervals \in Nat

\* ------------------------------------------------------------- properties
Asked == last.code # 0          \* some request has been answered

RoutingTargets == {taskSet[tg] : tg \in ProductionGroups}

\* C1: in every reachable state, whatever deployments have been started,
\* failed, shifted and terminated, exactly one deployment is active, and no
\* retired deployment is a routing target of the listener.
C1_OneActive ==
    /\ Cardinality(ActiveDeployments) = 1
    /\ \A d \in Deployments :
           Status(d) = "retired" => d \notin RoutingTargets

\* C1 witness: a deployment is retired, another rollout has failed, and a
\* third one has been promoted and is in its termination wait.
C1_Witness ==
    /\ terminated # {}
    /\ abandoned # {}
    /\ service.phase = "waiting"

\* C2: while a deployment is in flight, every state a routing decision can
\* read has exactly one of the original and the replacement active, and the
\* rule it reads is complete: one group carries all the traffic, the other
\* none.
C2_PromoteAtomic ==
    /\ service.phase # "idle" =>
           /\ (Status(service.original) = "active")
                  # (Status(service.replacement) = "active")
    /\ \E tg \in TargetGroups :
           /\ prodListenerRule.weights[tg] = 100
           /\ prodListenerRule.weights[Other(tg)] = 0
    /\ (Asked /\ last.code # 503) => last.dep = last.active

\* C2 witness: a request was decided after the shift of a deployment that is
\* still in flight, and went to the replacement.
C2_Witness ==
    /\ service.phase = "waiting"
    /\ Asked
    /\ last.active = service.replacement
    /\ last.dep = service.replacement

\* C3: a request without a signal is forwarded to the deployment that is
\* active when it is decided.
C3_NoSignalToActive ==
    (Asked /\ last.sig = NoSignal) =>
        /\ last.active # NoDeployment
        /\ last.dep = last.active

\* C3 witness: a request without a signal was answered by the second
\* deployment while the first one was draining.
C3_Witness ==
    /\ Asked
    /\ last.sig = NoSignal
    /\ last.dep = 2
    /\ last.code = 200
    /\ Status(1) = "draining"

\* C4 (as claimed): a request whose signal names a draining deployment is
\* forwarded to that deployment.
C4_DrainingHonoured ==
    (Asked /\ last.sigStatus = "draining") => last.dep = last.sig

\* C5: a request decided after a deployment was retired is never forwarded
\* to that deployment, whatever signal it presents.
C5_RetiredNeverRouted ==
    [][\A d \in terminated : last'.n # last.n => last'.dep # d]_vars

\* C5 witness: a request presenting the identifier of a retired deployment
\* has been answered.
C5_Witness ==
    /\ Asked
    /\ last.sigStatus = "retired"
    /\ last.sig \in terminated
    /\ last.code = 200

\* C9 (as claimed): with deployment 1 draining and deployment 2 active, a
\* request presenting 1 goes to 1 and a request without a signal goes to 2.
C9_Scenario ==
    (Asked /\ last.active = 2
           /\ (last.sig = NoSignal \/ (last.sig = 1 /\ last.sigStatus = "draining"))) =>
        /\ last.sig = 1 => last.dep = 1
        /\ last.sig = NoSignal => last.dep = 2

AffinityHeaders == {"X-Deployment-ID", "Set-Cookie"}

\* C10 (as claimed): a request presenting the identifier of a retired
\* deployment is forwarded to the active deployment and its response carries
\* a refreshed affinity token.
C10_RefreshedToken ==
    (Asked /\ last.sigStatus = "retired" /\ last.code = 200) =>
        /\ last.dep = last.active
        /\ last.headers \cap AffinityHeaders # {}

\* C11 (as claimed): a request whose signal names a retired or unknown
\* deployment gets no error, is forwarded to the active deployment, and its
\* response clears the stale signal; a response to a signal that names an
\* active or draining deployment does not clear it.
C11_StaleSignalCleared ==
    (Asked /\ last.sig # NoSignal /\ Handler(last.path, last.method).code = 200) =>
        /\ last.sigStatus \in {"retired", "absent"} =>
               /\ last.code = 200
               /\ last.dep = last.active
               /\ last.headers \cap AffinityHeaders # {}
        /\ last.sigStatus \in {"active", "draining"} =>
               last.headers \cap AffinityHeaders = {}

\* The rules of the production listener in the order they are evaluated:
\* the ProductionListenerRule, then the listener's default action, which has
\* no condition and answers a fixed 404 without forwarding.
ListenerRules ==
    << [predicate |-> "path", priority |-> prodListenerRule.priority,
        forwards |-> WeightedForward(prodListenerRule.weights)],
       [predicate |-> "none", priority |-> 0,   \* the default action has none
        forwards |-> {}] >>

RuleTargets(r) == {taskSet[tg] : tg \in r.forwards}

\* C12 (as claimed): the rule set has pairwise distinct priorities and
\* exactly one rule without a match predicate; that rule targets the active
\* deployment and is evaluated after every header-matching rule.
C12_DefaultRule ==
    /\ \A i, j \in DOMAIN ListenerRules :
           (i # j /\ ListenerRules[i].predicate # "none"
                  /\ ListenerRules[j].predicate # "none") =>
               ListenerRules[i].priority # ListenerRules[j].priority
    /\ Cardinality({i \in DOMAIN ListenerRules :
                       ListenerRules[i].predicate = "none"}) = 1
    /\ \A i \in DOMAIN ListenerRules :
           ListenerRules[i].predicate = "none" =>
               /\ RuleTargets(ListenerRules[i]) = ActiveDeployments
               /\ \A j \in DOMAIN ListenerRules :
                      ListenerRules[j].predicate = "header" => j < i

\* Where the listener sends a request with the given signal and path.
RouteOutcome(sig, path) ==
    {taskSet[tg] : tg \in ListenerTargets(prodListenerRule, sig, path)}

\* C14: a controller operation that ends in failure (in this repository: a
\* rollout whose replacement never becomes healthy) leaves the routing
\* decision for every signal unchanged, promotes nothing, and the deployment
\* that was active stays active.
C14_FailureLeavesRouting ==
    [][abandoned' # abandoned =>
          /\ \A sig \in Signals, path \in Paths :
                 RouteOutcome(sig, path)' = RouteOutcome(sig, path)
          /\ ActiveDeployments' = ActiveDeployments
          /\ prodListenerRule' = prodListenerRule]_vars

\* C14 witness: after a failed rollout of deployment 2, a request presenting
\* 2 was answered by deployment 1, which is still the active one.
C14_Witness ==
    /\ 2 \in abandoned
    /\ Asked
    /\ last.sig = 2
    /\ last.sigStatus = "abandoned"
    /\ last.dep = 1
    /\ last.code = 200
    /\ Status(1) = "active"

StatusOrder ==
    { <<"absent", "provisioning">>, <<"provisioning", "active">>,
      <<"active", "draining">>, <<"draining", "retired">>,
      <<"provisioning", "abandoned">> }

\* C16: every status change of a deployment is a move to the next status in
\* the order provisioning, active, draining, retired (a deployment enters at
\* provisioning, and the only way out of the order is the abandonment of a
\* provisioning deployment whose rollout failed): none moves back, none
\* skips a status.
C16_StatusOrder ==
    [][\A d \in Deployments :
          Status(d)' # Status(d) => <<Status(d), Status(d)'>> \in StatusOrder]_vars

\* C16 witness: deployment 2 has gone through the whole order and deployment
\* 3 is on its way.
C16_Witness ==
    /\ Status(2) = "retired"
    /\ Status(3) = "active"
    /\ Status(4) = "provisioning"

\* C17: no request is forwarded to a provisioning deployment; a request
\* without a signal made while a deployment is provisioning, and a request
\* whose signal names the provisioning deployment, both go to the active
\* deployment.
C17_NoTrafficToProvisioning ==
    [][last'.n # last.n =>
          /\ Status(last'.dep) # "provisioning"
          /\ (\/ last'.sigStatus = "provisioning"
              \/ (last'.sig = NoSignal
                    /\ service.phase \in {"provisioning", "healthy"})) =>
                 /\ last'.active # NoDeployment
                 /\ last'.dep = last'.active]_vars

\* C17 witness: a request presenting the identifier of the provisioning
\* deployment was answered by another deployment.
C17_Witness ==
    /\ Asked
    /\ last.sigStatus = "provisioning"
    /\ last.code = 200
    /\ last.dep # last.sig
    /\ service.replacement = last.sig

\* C18: a deployment becomes active only in a step taken when its health
\* check has passed, and the health check is recorded as passed only by a
\* GET /health that the backend answers with 200.
C18_ActiveAfterHealthCheck ==
    [][/\ \A d \in Deployments :
              (Status(d) # "active" /\ Status(d)' = "active") =>
                  /\ service.phase = "healthy"
                  /\ service.replacement = d
       /\ (service.phase # "healthy" /\ service'.phase = "healthy") =>
              /\ service.phase = "provisioning"
              /\ service'.replacement = service.replacement
              /\ Handler("/health", "GET").code = 200]_vars

\* C18 witness: deployment 2 has just become active.
C18_Witness ==
    /\ Status(2) = "active"
    /\ service.phase = "waiting"
    /\ service.waited = 0
    /\ service.replacement = 2

\* C19: the target that requests without a signal are forwarded to changes
\* only in a step that promotes a provisioning deployment to active; every
\* other step (start of a deployment, termination, health check, failed
\* rollout, request) leaves it and the listener rule unchanged.
C19_DefaultTargetChange ==
    [][(RoutingTargets' # RoutingTargets \/ prodListenerRule' # prodListenerRule) =>
          /\ service.phase = "healthy"
          /\ service'.phase = "waiting"
          /\ Status(service.replacement) = "provisioning"
          /\ Status(service.replacement)' = "active"
          /\ RoutingTargets' = {service.replacement}]_vars

\* C19 witness: deployments have been terminated and abandoned, requests
\* answered, and a healthy replacement is waiting for its promotion.
C19_Witness ==
    /\ terminated # {}
    /\ abandoned # {}
    /\ Asked
    /\ service.phase = "healthy"
    /\ RoutingTargets = {service.original}

\* C20: a draining deployment is retired only in a state where its grace
\* period (terminationWaitTime) has elapsed, and once it has elapsed the
\* retirement is possible whatever signal clients still present.
C20_RetireAfterGrace ==
    /\ [][\A d \in Deployments :
             (Status(d) = "draining" /\ Status(d)' = "retired") =>
                 service.waited = TerminationWaitMinutes]_vars
    /\ []((service.phase = "waiting"
             /\ service.waited = TerminationWaitMinutes) =>
              ENABLED TerminateOriginal)

\* C20 witness: a deployment was retired although the last request before
\* its retirement presented its identifier.
C20_Witness ==
    /\ Asked
    /\ last.sigStatus = "draining"
    /\ last.sig \in terminated

C22_DrainingEndsRetired ==
    \A d \in Deployments : (Status(d) = "draining") ~> (Status(d) = "retired")

\* C22 witness: the grace period of a draining deployment is over while the
\* last request still presented its identifier.
C22_Witness ==
    /\ service.phase = "waiting"
    /\ service.waited = TerminationWaitMinutes
    /\ last.sig = service.original
    /\ last.sigStatus = "draining"

\* C24: a routing decision changes no deployment status and no listener
\* rule, and its outcome is determined by the state it reads: for every
\* signal and path there is exactly one deployment the request can be
\* forwarded to, the request is forwarded to it, and no response clears the
\* signal.
C24_PureDecision ==
    /\ [][last'.n # last.n =>
             /\ UNCHANGED <<prodListenerRule, taskSet, service, nextId,
                            terminated, abandoned>>
             /\ \A d \in Deployments : Status(d)' = Status(d)
             /\ last'.dep \in RouteOutcome(last'.sig, last'.path)
             /\ last'.headers \cap AffinityHeaders = {}]_vars
    /\ [](\A sig \in Signals, path \in Paths :
              Cardinality(RouteOutcome(sig, path)) = 1)

\* C24 witness: at least two requests have been decided, the last one with
\* a signal, while a deployment was draining.
C24_Witness ==
    /\ Asked
    /\ last.n = 0
    /\ last.sig \in Deployments
    /\ last.sigStatus = "draining"
    /\ last.code = 200

\* C25: in every state of the demo page where at least one fetchApiData
\* request is still in flight, isLoading is true, also when a manual
\* refresh, an interval fetch and a toggle-triggered fetch overlap.
C25_LoadingWhileInFlight ==
    (app.mounted /\ InFlight(app) > 0) => app.isLoading

\* C26: whatever the sequence of mounts, toggles and unmounts, at most one
\* polling interval is registered, and none while autoRefetch is false or
\* the component is unmounted.
C26_OneInterval ==
    /\ app.intervals <= 1
    /\ (~ app.autoRefetch \/ ~ app.mounted) => app.intervals = 0

\* C26 witness: the component was mounted, unmounted with a request in
\* flight, mounted again, and auto refresh was then toggled off.
C26_Witness ==
    /\ app.mounted
    /\ ~ app.autoRefetch
    /\ app.stale > 0
    /\ app.intervals = 0

====
